---- MODULE Spec2Model ----
(***************************************************************************)
(* Offline region packs of hiker2.0.                                       *)
(*                                                                         *)
(*   HomeScreen     (map tab):     handleDownload, onProgress, onError     *)
(*   TabTwoScreen   (explore tab): fetchPacks, handleDeletePack            *)
(*                                                                         *)
(* JavaScript strings are sequences of one-character strings, JavaScript   *)
(* values are tagged records (JSVal below).  Numbers are integers: the     *)
(* program only produces Date.now() readings, percentages and byte counts. *)
(***************************************************************************)
EXTENDS Integers, Sequences, FiniteSets, TLC

\* F applied to the value of e, with e evaluated once
WithVal(e, F(_)) == CHOOSE r \in {F(x) : x \in {e}} : TRUE

(***************************************************************************)
(* JavaScript values                                                       *)
(***************************************************************************)

\* A value is [t, s, n, f, k]: type tag, string payload, number payload
\* (booleans: 0/1), own properties and their insertion order.
Undefined == [t |-> "undefined", s |-> <<>>, n |-> 0, f |-> <<>>, k |-> <<>>]

Null == [t |-> "null", s |-> <<>>, n |-> 0, f |-> <<>>, k |-> <<>>]

Bool(b) == [t |-> "boolean", s |-> <<>>, n |-> IF b THEN 1 ELSE 0, f |-> <<>>, k |-> <<>>]

Num(x) == [t |-> "number", s |-> <<>>, n |-> x, f |-> <<>>, k |-> <<>>]

Str(x) == [t |-> "string", s |-> x, n |-> 0, f |-> <<>>, k |-> <<>>]

EmptyObj == [t |-> "object", s |-> <<>>, n |-> 0, f |-> <<>>, k |-> <<>>]

\* typeof v
TypeOf(v) == IF v.t = "null" THEN "object" ELSE v.t

\* ToBoolean(v)
Truthy(v) ==
  CASE v.t = "undefined" -> FALSE
    [] v.t = "null"      -> FALSE
    [] v.t = "boolean"   -> v.n = 1
    [] v.t = "number"    -> v.n # 0
    [] v.t = "string"    -> v.s # <<>>
    [] OTHER             -> TRUE

\* v[key] for a value that is not null or undefined
Get(v, key) ==
  IF v.t = "object" /\ key \in DOMAIN v.f THEN v.f[key] ELSE Undefined

\* obj[key] = val: an existing key keeps its place in the insertion order
Put(obj, key, val) ==
  [obj EXCEPT
     !.f = [x \in (DOMAIN obj.f) \cup {key} |-> IF x = key THEN val ELSE obj.f[x]],
     !.k = IF key \in DOMAIN obj.f THEN obj.k ELSE Append(obj.k, key)]

\* the object literal built from a sequence of <<key, value>> pairs
RECURSIVE ObjOf(_)
ObjOf(pairs) ==
  IF pairs = <<>> THEN EmptyObj
  ELSE LET n == Len(pairs)
       IN Put(ObjOf(SubSeq(pairs, 1, n - 1)), pairs[n][1], pairs[n][2])

(***************************************************************************)
(* Characters, parseInt, number formatting                                 *)
(***************************************************************************)

Digits == {"0", "1", "2", "3", "4", "5", "6", "7", "8", "9"}

DigitVal ==
  [c \in Digits \cup {"a", "b", "c", "d", "e", "f", "A", "B", "C", "D", "E", "F"} |->
     CASE c = "0" -> 0 [] c = "1" -> 1 [] c = "2" -> 2 [] c = "3" -> 3
       [] c = "4" -> 4 [] c = "5" -> 5 [] c = "6" -> 6 [] c = "7" -> 7
       [] c = "8" -> 8 [] c = "9" -> 9
       [] c \in {"a", "A"} -> 10 [] c \in {"b", "B"} -> 11
       [] c \in {"c", "C"} -> 12 [] c \in {"d", "D"} -> 13
       [] c \in {"e", "E"} -> 14 [] c \in {"f", "F"} -> 15]

WhiteSpace == {" ", "\t", "\n", "\r"}

\* index of the first character of s at or after i that is not white space
RECURSIVE SkipWs(_, _)
SkipWs(s, i) ==
  IF i <= Len(s) /\ s[i] \in WhiteSpace THEN SkipWs(s, i + 1) ELSE i

\* value of the longest prefix of s[i..] made of digits of the radix;
\* cnt is the number of digits consumed
RECURSIVE DigitRun(_, _, _, _, _)
DigitRun(s, i, radix, acc, cnt) ==
  IF i <= Len(s) /\ s[i] \in DOMAIN DigitVal /\ DigitVal[s[i]] < radix
  THEN DigitRun(s, i + 1, radix, acc * radix + DigitVal[s[i]], cnt + 1)
  ELSE [n |-> acc, cnt |-> cnt, next |-> i]

\* parseInt(s): leading white space, a sign, a 0x prefix, then the longest
\* run of digits; NaN when the run is empty
ParseInt(s) ==
  WithVal(SkipWs(s, 1), LAMBDA i0 :
    LET neg == i0 <= Len(s) /\ s[i0] = "-"
        i1  == IF i0 <= Len(s) /\ s[i0] \in {"-", "+"} THEN i0 + 1 ELSE i0
        hex == i1 + 1 <= Len(s) /\ s[i1] = "0" /\ s[i1 + 1] \in {"x", "X"}
    IN WithVal(IF hex THEN DigitRun(s, i1 + 2, 16, 0, 0) ELSE DigitRun(s, i1, 10, 0, 0),
               LAMBDA run : [nan |-> run.cnt = 0, n |-> IF neg THEN 0 - run.n ELSE run.n]))

\* decimal digits of a natural number
RECURSIVE NatToStr(_)
NatToStr(x) ==
  LET d == CHOOSE c \in Digits : DigitVal[c] = x % 10
  IN IF x < 10 THEN <<d>> ELSE Append(NatToStr(x \div 10), d)

\* String(x) for an integer
NumToStr(x) == IF x < 0 THEN <<"-">> \o NatToStr(0 - x) ELSE NatToStr(x)

\* a key that is a canonical array index ("0", "7", "12"; not "03", "-1")
IsArrayIndex(key) ==
  /\ key # <<>>
  /\ \A i \in 1..Len(key) : key[i] \in Digits
  /\ (key[1] = "0" => Len(key) = 1)

\* stable insertion of key x into a sequence sorted by Rank
RECURSIVE InsertBy(_, _, _)
InsertBy(Rank(_), x, sorted) ==
  IF sorted = <<>> THEN <<x>>
  ELSE LET n == Len(sorted)
       IN IF Rank(sorted[n]) <= Rank(x) THEN Append(sorted, x)
          ELSE Append(InsertBy(Rank, x, SubSeq(sorted, 1, n - 1)), sorted[n])

\* Array.prototype.sort((a, b) => Rank(a) - Rank(b)): a stable sort
RECURSIVE SortBy(_, _)
SortBy(Rank(_), keys) ==
  IF keys = <<>> THEN <<>>
  ELSE LET n == Len(keys)
       IN InsertBy(Rank, keys[n], SortBy(Rank, SubSeq(keys, 1, n - 1)))

\* Array.prototype.filter
RECURSIVE Filter(_, _)
Filter(Keep(_), keys) ==
  IF keys = <<>> THEN <<>>
  ELSE IF Keep(Head(keys)) THEN <<Head(keys)>> \o Filter(Keep, Tail(keys))
       ELSE Filter(Keep, Tail(keys))

KeyRank(key) == ParseInt(key).n

\* Object.keys(obj): array-index keys in ascending numeric order, then the
\* other keys in insertion order
ObjectKeys(obj) ==
  LET IsIdx(key)  == IsArrayIndex(key)
      NotIdx(key) == ~IsArrayIndex(key)
  IN SortBy(KeyRank, Filter(IsIdx, obj.k)) \o Filter(NotIdx, obj.k)

(***************************************************************************)
(* JSON.stringify and JSON.parse                                           *)
(*                                                                         *)
(* The grammar covered: objects, strings with the escapes \" \\ \/ \n \t   *)
(* \r \f, integers, null, true, false, white space.  Arrays, fractions,    *)
(* exponents and \b \u escapes do not occur in the texts the model feeds   *)
(* to the parser (Alphabet has no "[", ".", "e", "b", "u").                *)
(***************************************************************************)

ControlChars == {"\n", "\t", "\r", "\f"}

\* the escape sequence JSON.stringify writes for a character
EscapeOf(c) ==
  CASE c = "\"" -> <<"\\", "\"">>
    [] c = "\\" -> <<"\\", "\\">>
    [] c = "\n" -> <<"\\", "n">>
    [] c = "\t" -> <<"\\", "t">>
    [] c = "\r" -> <<"\\", "r">>
    [] c = "\f" -> <<"\\", "f">>
    [] OTHER    -> <<c>>

RECURSIVE EscapeAll(_)
EscapeAll(s) == IF s = <<>> THEN <<>> ELSE EscapeOf(Head(s)) \o EscapeAll(Tail(s))

\* a serializer that forgets the quotes around a string
QuoteBare(s) == EscapeAll(s)

\* JSON.stringify of a string: QuoteJSONString
Quote(s) == <<"\"">> \o EscapeAll(s) \o <<"\"">>

RECURSIVE Stringify(_)
RECURSIVE StringifyMembers(_, _)
\* the "key":value members of obj for the keys listed, undefined values skipped
StringifyMembers(obj, keys) ==
  IF keys = <<>> THEN <<>>
  ELSE WithVal(StringifyMembers(obj, Tail(keys)), LAMBDA rest :
         LET key == Head(keys)
         IN IF obj.f[key].t = "undefined" THEN rest
            ELSE Quote(key) \o <<":">> \o Stringify(obj.f[key])
                 \o (IF rest = <<>> THEN <<>> ELSE <<",">> \o rest))

\* JSON.stringify(v) for a value that is not undefined
Stringify(v) ==
  CASE v.t = "string"  -> Quote(v.s)
    [] v.t = "number"  -> NumToStr(v.n)
    [] v.t = "boolean" -> IF v.n = 1 THEN <<"t", "r", "u", "e">> ELSE <<"f", "a", "l", "s", "e">>
    [] v.t = "object"  -> WithVal(ObjectKeys(v), LAMBDA keys :
                            <<"{">> \o StringifyMembers(v, keys) \o <<"}">>)
    [] OTHER           -> <<"n", "u", "l", "l">>

\* a parse step: ok, the value read, the index after it
ParseFail == [ok |-> FALSE, v |-> Undefined, next |-> 0]

ParseOk(v, next) == [ok |-> TRUE, v |-> v, next |-> next]

\* the character an escape letter stands for
UnescapeOf(c) ==
  CASE c = "n" -> "\n" [] c = "t" -> "\t" [] c = "r" -> "\r" [] c = "f" -> "\f"
    [] OTHER -> c

\* the characters of a string literal from index i (after the opening quote)
RECURSIVE ParseStringBody(_, _, _)
ParseStringBody(s, i, acc) ==
  IF i > Len(s) THEN ParseFail
  ELSE IF s[i] = "\"" THEN ParseOk(Str(acc), i + 1)
  ELSE IF s[i] \in ControlChars THEN ParseFail
  ELSE IF s[i] = "\\"
       THEN IF i + 1 <= Len(s) /\ s[i + 1] \in {"\"", "\\", "/", "n", "t", "r", "f"}
            THEN ParseStringBody(s, i + 2, Append(acc, UnescapeOf(s[i + 1])))
            ELSE ParseFail
  ELSE ParseStringBody(s, i + 1, Append(acc, s[i]))

\* -?(0|[1-9][0-9]*) at index i
ParseNumber(s, i) ==
  LET neg == s[i] = "-"
      j   == IF neg THEN i + 1 ELSE i
  IN WithVal(DigitRun(s, j, 10, 0, 0), LAMBDA run :
       IF j > Len(s) \/ run.cnt = 0 THEN ParseFail
       ELSE IF s[j] = "0" THEN ParseOk(Num(0), j + 1)
       ELSE ParseOk(Num(IF neg THEN 0 - run.n ELSE run.n), run.next))

\* does word occur in s at index i
Matches(s, i, word) ==
  i + Len(word) - 1 <= Len(s) /\ SubSeq(s, i, i + Len(word) - 1) = word

RECURSIVE ParseValue(_, _)
RECURSIVE ParseMembers(_, _, _)
\* the members of an object from index i (after "{" or ","), added to obj
ParseMembers(s, i, obj) ==
  WithVal(SkipWs(s, i), LAMBDA ik :
  WithVal(IF ik <= Len(s) /\ s[ik] = "\"" THEN ParseStringBody(s, ik + 1, <<>>) ELSE ParseFail, LAMBDA key :
  WithVal(IF key.ok THEN SkipWs(s, key.next) ELSE 0, LAMBDA ic :
  WithVal(IF key.ok /\ ic <= Len(s) /\ s[ic] = ":" THEN ParseValue(s, ic + 1) ELSE ParseFail, LAMBDA val :
  WithVal(IF val.ok THEN SkipWs(s, val.next) ELSE 0, LAMBDA ie :
    IF ~val.ok \/ ie > Len(s) THEN ParseFail
    ELSE WithVal(Put(obj, key.v.s, val.v), LAMBDA added :
           IF s[ie] = "}" THEN ParseOk(added, ie + 1)
           ELSE IF s[ie] = "," THEN ParseMembers(s, ie + 1, added)
           ELSE ParseFail))))))

\* a JSON value at or after index i
ParseValue(s, i) ==
  WithVal(SkipWs(s, i), LAMBDA j :
    IF j > Len(s) THEN ParseFail
    ELSE IF s[j] = "{"
         THEN WithVal(SkipWs(s, j + 1), LAMBDA jj :
                IF jj <= Len(s) /\ s[jj] = "}" THEN ParseOk(EmptyObj, jj + 1)
                ELSE ParseMembers(s, j + 1, EmptyObj))
    ELSE IF s[j] = "\"" THEN ParseStringBody(s, j + 1, <<>>)
    ELSE IF s[j] = "-" \/ s[j] \in Digits THEN ParseNumber(s, j)
    ELSE IF Matches(s, j, <<"n", "u", "l", "l">>) THEN ParseOk(Null, j + 4)
    ELSE IF Matches(s, j, <<"t", "r", "u", "e">>) THEN ParseOk(Bool(TRUE), j + 4)
    ELSE IF Matches(s, j, <<"f", "a", "l", "s", "e">>) THEN ParseOk(Bool(FALSE), j + 5)
    ELSE ParseFail)

\* JSON.parse(s): ok = FALSE stands for the SyntaxError it throws
JsonParse(s) ==
  WithVal(s, LAMBDA text :
  WithVal(ParseValue(text, 1), LAMBDA r :
    IF r.ok /\ SkipWs(text, r.next) = Len(text) + 1 THEN [ok |-> TRUE, v |-> r.v]
    ELSE [ok |-> FALSE, v |-> Undefined]))

(***************************************************************************)
(* String constants of explore.tsx                                         *)
(***************************************************************************)

K_name == <<"n", "a", "m", "e">>

K_metadata == <<"m", "e", "t", "a", "d", "a", "t", "a">>

K__metadata == <<"_", "m", "e", "t", "a", "d", "a", "t", "a">>

K_downloaded_at == <<"d", "o", "w", "n", "l", "o", "a", "d", "e", "d", "_", "a", "t">>

K_bounds == <<"b", "o", "u", "n", "d", "s">>

K_pack == <<"p", "a", "c", "k">>

K_size == <<"s", "i", "z", "e">>

K_byteSize == <<"b", "y", "t", "e", "S", "i", "z", "e">>

K_bytes == <<"b", "y", "t", "e", "s">>

K_completedResourceSize == <<"c", "o", "m", "p", "l", "e", "t", "e", "d", "R", "e", "s", "o", "u", "r", "c", "e", "S", "i", "z", "e">>

K_completedResourceCount == <<"c", "o", "m", "p", "l", "e", "t", "e", "d", "R", "e", "s", "o", "u", "r", "c", "e", "C", "o", "u", "n", "t">>

K_completedSize == <<"c", "o", "m", "p", "l", "e", "t", "e", "d", "S", "i", "z", "e">>

K_progress == <<"p", "r", "o", "g", "r", "e", "s", "s">>

S_Pack == <<"P", "a", "c", "k", ":", " ">>

S_Unknown == <<"U", "n", "k", "n", "o", "w", "n">>

S_InvalidJSON == <<"I", "n", "v", "a", "l", "i", "d", " ", "J", "S", "O", "N", ":", " ">>

S_UnknownType == <<"U", "n", "k", "n", "o", "w", "n", " ", "t", "y", "p", "e", ":", " ">>

S_TypeError == <<"T", "y", "p", "e", " ", "e", "r", "r", "o", "r", ":", " ">>

S_undefined == <<"u", "n", "d", "e", "f", "i", "n", "e", "d">>

S_null == <<"n", "u", "l", "l">>

S_true == <<"t", "r", "u", "e">>

S_false == <<"f", "a", "l", "s", "e">>

S_objectObject == <<"[", "o", "b", "j", "e", "c", "t", " ", "O", "b", "j", "e", "c", "t", "]">>

UpperCase == <<"A", "B", "C", "D", "E", "F", "G", "H", "I", "J", "K", "L", "M", "N", "O", "P", "Q", "R", "S", "T", "U", "V", "W", "X", "Y", "Z">>

LowerCase == <<"a", "b", "c", "d", "e", "f", "g", "h", "i", "j", "k", "l", "m", "n", "o", "p", "q", "r", "s", "t", "u", "v", "w", "x", "y", "z">>

\* String.prototype.toLowerCase
ToLowerCase(s) ==
  [i \in 1..Len(s) |->
     IF \E j \in 1..26 : UpperCase[j] = s[i]
     THEN LowerCase[CHOOSE j \in 1..26 : UpperCase[j] = s[i]]
     ELSE s[i]]

\* String.prototype.includes
Includes(s, word) == \E i \in 1..(Len(s) - Len(word) + 1) : Matches(s, i, word)

\* String(v), as string concatenation and template literals convert a value
ToStr(v) ==
  CASE v.t = "string"    -> v.s
    [] v.t = "number"    -> NumToStr(v.n)
    [] v.t = "boolean"   -> IF v.n = 1 THEN S_true ELSE S_false
    [] v.t = "undefined" -> S_undefined
    [] v.t = "null"      -> S_null
    [] OTHER             -> S_objectObject

\* a || b
OrElse(a, b) == IF Truthy(a) THEN a ELSE b

\* the object literal { name: <text> }
NameOnly(text) == ObjOf(<< <<K_name, text>> >>)

(***************************************************************************)
(* fetchPacks: the mapping of one raw pack record                          *)
(***************************************************************************)

\* the keys of the _metadata map kept by the filter, sorted by parseInt
numericKeys(md) ==
  LET NotNaN(key) == ~ParseInt(key).nan
  IN SortBy(KeyRank, Filter(NotNaN, ObjectKeys(md)))

\* the characters under the keys listed, concatenated in that order
RECURSIVE ConcatAt(_, _)
ConcatAt(md, keys) ==
  IF keys = <<>> THEN <<>> ELSE ToStr(Get(md, Head(keys))) \o ConcatAt(md, Tail(keys))

reconstructedJson(md) == WithVal(numericKeys(md), LAMBDA keys : ConcatAt(md, keys))

\* the characters under keys "46".."58" that are truthy, joined
RECURSIVE timestampChars(_, _)
timestampChars(md, i) ==
  IF i > 58 THEN <<>>
  ELSE (IF Truthy(Get(md, NatToStr(i))) THEN ToStr(Get(md, NatToStr(i))) ELSE <<>>)
       \o timestampChars(md, i + 1)

\* a catch block that labels the pack as the string path does
parseErrorLabel(pack) == NameOnly(Str(S_InvalidJSON \o ToStr(Get(pack, K_name))))

\* catch (parseError): the map's own name, with a timestamp read from the
\* characters 46..58, or the label built from the pack's id
parseErrorFallback(pack) ==
  WithVal(Get(pack, K__metadata), LAMBDA md :
  WithVal(Get(pack, K_name), LAMBDA id :
  WithVal(NameOnly(Get(md, K_name)), LAMBDA named :
    IF Truthy(Get(md, K_name))
    THEN IF Len(numericKeys(md)) > 45
         THEN WithVal(timestampChars(md, 46), LAMBDA chars :
              WithVal(ParseInt(chars), LAMBDA timestamp :
                IF Len(chars) > 0 /\ ~timestamp.nan
                THEN Put(named, K_downloaded_at, Num(timestamp.n))
                ELSE named))
         ELSE named
    ELSE NameOnly(Str(S_Pack \o ToStr(OrElse(id, Str(S_Unknown))))))))

\* the metadata decoded from an indexed-character _metadata map
decodeIndexed(pack) ==
  WithVal(Get(pack, K__metadata), LAMBDA md :
  WithVal(JsonParse(reconstructedJson(md)), LAMBDA parsed :
    \* metadata = parsed; reading metadata.name of null throws a TypeError
    \* inside the same try block
    IF parsed.ok /\ parsed.v.t # "null"
    THEN WithVal(IF ~Truthy(Get(parsed.v, K_name)) /\ TypeOf(Get(parsed.v, K_name)) = "string"
                 THEN Put(parsed.v, K_name, Get(parsed.v, K_name)) ELSE parsed.v, LAMBDA m1 :
           IF ~Truthy(Get(m1, K_downloaded_at)) /\ TypeOf(Get(m1, K_downloaded_at)) = "number"
           THEN Put(m1, K_downloaded_at, Get(m1, K_downloaded_at)) ELSE m1)
    ELSE parseErrorFallback(pack)))

\* the metadata decoded from pack.metadata (object, string or other)
decodeStored(pack) ==
  WithVal(Get(pack, K_metadata), LAMBDA md :
  WithVal(ToStr(Get(pack, K_name)), LAMBDA id :
    IF Truthy(md)
    THEN WithVal(IF TypeOf(md) = "object" THEN md
                 ELSE IF TypeOf(md) = "string"
                      THEN WithVal(JsonParse(md.s), LAMBDA parsed :
                             IF parsed.ok THEN parsed.v ELSE NameOnly(Str(S_InvalidJSON \o id)))
                 ELSE NameOnly(Str(S_UnknownType \o id)), LAMBDA m0 :
         WithVal(IF TypeOf(m0) # "object" \/ m0.t = "null"
                 THEN NameOnly(Str(S_TypeError \o id)) ELSE m0, LAMBDA m1 :
           IF ~Truthy(Get(m1, K_name)) THEN Put(m1, K_name, Str(S_Pack \o id)) ELSE m1))
    ELSE NameOnly(Str(S_Pack \o id))))

\* the size estimate of the mapping: from the serialized _metadata only
estimatedSize(pack) ==
  WithVal(Get(pack, K__metadata), LAMBDA md :
    IF Truthy(md) THEN Num(10 * 1024 + Len(Stringify(md)) * 2) ELSE Null)

\* one element of formattedPacks
formatPack(pack) ==
  WithVal(pack, LAMBDA record :
  WithVal(Get(record, K__metadata), LAMBDA md :
    [name     |-> Get(record, K_name),
     bounds   |-> OrElse(Get(record, K_bounds),
                         IF Truthy(Get(record, K_pack)) THEN Get(Get(record, K_pack), K_bounds) ELSE Null),
     metadata |-> IF Truthy(md) /\ TypeOf(md) = "object" THEN decodeIndexed(record) ELSE decodeStored(record),
     size     |-> estimatedSize(record)]))

\* the first own key, in for-in order, holding a number under a name that
\* contains "size" or "bytes"
RECURSIVE firstSizeKey(_, _)
firstSizeKey(pack, keys) ==
  IF keys = <<>> THEN Null
  ELSE IF /\ TypeOf(Get(pack, Head(keys))) = "number"
          /\ \/ Includes(ToLowerCase(Head(keys)), K_size)
             \/ Includes(ToLowerCase(Head(keys)), K_bytes)
       THEN Get(pack, Head(keys))
       ELSE firstSizeKey(pack, Tail(keys))

\* inspectPackForSize(pack): the reported size, or null
inspectPackForSize(pack) ==
  LET progress == Get(pack, K_progress)
      IsNum(v) == TypeOf(v) = "number"
  IN IF IsNum(Get(pack, K_size)) THEN Get(pack, K_size)
     ELSE IF IsNum(Get(pack, K_byteSize)) THEN Get(pack, K_byteSize)
     ELSE IF IsNum(Get(pack, K_bytes)) THEN Get(pack, K_bytes)
     ELSE IF IsNum(Get(pack, K_completedResourceSize)) THEN Get(pack, K_completedResourceSize)
     ELSE IF IsNum(Get(pack, K_completedResourceCount)) /\ IsNum(Get(pack, K_completedResourceSize))
          THEN Get(pack, K_completedResourceSize)
     ELSE IF Truthy(progress) /\ TypeOf(progress) = "object"
             /\ IsNum(Get(progress, K_completedResourceSize))
          THEN Get(progress, K_completedResourceSize)
     ELSE IF Truthy(progress) /\ TypeOf(progress) = "object"
             /\ IsNum(Get(progress, K_completedSize))
          THEN Get(progress, K_completedSize)
     ELSE firstSizeKey(pack, ObjectKeys(pack))

(***************************************************************************)
(* State                                                                   *)
(***************************************************************************)

VARIABLES
  offlineManager,   \* is the OfflineManager instance available
  isDownloading,    \* HomeScreen state
  downloadProgress, \* HomeScreen state, in hundredths (100 is the fraction 1.0)
  shown,            \* the state values of the last committed render
  calls,            \* handleDownload invocations in flight: where each one stands
  requests,         \* the options of every createPack request issued, in order
  sessions,         \* storage layer: the download of each createPack request
  now,              \* Date.now()
  zoom,             \* the zoom level of the map view, in tenths
  packs,            \* TabTwoScreen state: the normalized pack list
  isLoading,        \* TabTwoScreen state
  isRefreshing,     \* TabTwoScreen state
  fetches,          \* getPacks calls in flight (kept ordered: their order means nothing)
  deletes,          \* deletePack calls in flight (kept ordered likewise)
  dialog,           \* the pack of the open "Confirm Deletion" dialog, or NoPack
  stored,           \* storage layer: indices (in PackUniverse) of the packs it holds
  alert,            \* the last Alert.alert shown
  raw,              \* codec: a raw pack record handed to the mapping
  formatted         \* codec: the mapping's result for raw, once computed

homeVars == <<isDownloading, downloadProgress, calls, requests, sessions, now, zoom>>

exploreVars == <<packs, isLoading, isRefreshing, fetches, deletes, dialog, stored>>

codecVars == <<raw, formatted>>

vars == <<offlineManager, shown, alert, homeVars, exploreVars, codecVars>>

(***************************************************************************)
(* Bounds                                                                  *)
(***************************************************************************)

\* createPack requests issued in one behaviour
MaxDownloads == 2

\* largest clock reading
MaxClock == 2

\* getPacks calls in flight at once
MaxFetches == 2

\* deletePack calls in flight at once
MaxDeletes == 2

\* percentages the storage layer reports
Percentages == {10, 45, 100}

\* OfflinePackStatus.state values delivered: active, complete
DownloadStates == {2, 3}

\* viewport zoom levels, in tenths: 0.7, 12.5, 14.5 and 19.5 (the map view
\* zooms from 0 to 22)
Zooms == {7, 125, 145, 195}

ErrorMessages == {"timeout"}

(***************************************************************************)
(* HomeScreen: handleDownload, onProgress, onError                         *)
(***************************************************************************)

RemoveAt(seq, i) == SubSeq(seq, 1, i - 1) \o SubSeq(seq, i + 1, Len(seq))

NoAlert == [title |-> "", text |-> "", detail |-> ""]

Alert(title, text, detail) == [title |-> title, text |-> text, detail |-> detail]

S_offlinePack == <<"o", "f", "f", "l", "i", "n", "e", "-", "p", "a", "c", "k", "-">>

S_Region == <<"R", "e", "g", "i", "o", "n", " ", "@", " ">>

\* Date.prototype.toLocaleTimeString of a clock reading: "h:m"
toLocaleTimeString(t) == NatToStr(t \div 60) \o <<":">> \o NatToStr(t % 60)

\* const packName = `offline-pack-${Date.now()}`
packName(t) == S_offlinePack \o NatToStr(t)

\* const metadata = { name: `Region @ ...`, downloaded_at: Date.now() }
metadata(t) ==
  ObjOf(<< <<K_name, Str(S_Region \o toLocaleTimeString(t))>>,
           <<K_downloaded_at, Num(t)>> >>)

Max(a, b) == IF a >= b THEN a ELSE b

\* an upper limit that is not applied
unclamped(a, b) == b

Min(a, b) == IF a <= b THEN a ELSE b

\* Math.floor of a zoom given in tenths
Floor(z) == z \div 10

\* const options = { name, styleURL, bounds, minZoom, maxZoom, metadata }
options(t, z) ==
  [name     |-> packName(t),
   minZoom  |-> Max(0, Floor(z) - 2),
   maxZoom  |-> Min(16, Floor(z) + 3),
   metadata |-> Stringify(metadata(t))]

\* the committed render reads the current state
Render ==
  /\ shown # [isDownloading |-> isDownloading, isLoading |-> isLoading, isRefreshing |-> isRefreshing]
  /\ shown' = [isDownloading |-> isDownloading, isLoading |-> isLoading, isRefreshing |-> isRefreshing]
  /\ UNCHANGED <<offlineManager, alert, homeVars, exploreVars, codecVars>>

\* the guard of handleDownload: it reads the isDownloading of the render
\* that created the callback
downloadPrevented == shown.isDownloading \/ ~offlineManager

\* a press of "Download Visible Region" (rendered while the shown
\* isDownloading is false, disabled without a manager): handleDownload up to
\* its first await
PressDownload ==
  /\ ~shown.isDownloading /\ offlineManager
  /\ Len(calls) + Len(requests) < MaxDownloads
  /\ IF downloadPrevented
     THEN /\ alert' = IF ~offlineManager
                      THEN Alert("Error", "Offline manager is not yet available", "")
                      ELSE alert
          /\ UNCHANGED <<isDownloading, downloadProgress, calls>>
     ELSE /\ isDownloading' = TRUE
          /\ downloadProgress' = 0
          /\ calls' = Append(calls, [pc |-> "bounds", request |-> 0])
          /\ UNCHANGED alert
  /\ UNCHANGED <<offlineManager, shown, requests, sessions, now, zoom, exploreVars, codecVars>>

\* getVisibleBounds or getZoom gave nothing: alert, setIsDownloading(false)
NoBounds(c) ==
  /\ calls[c].pc = "bounds"
  /\ alert' = Alert("Error", "Could not get map bounds or zoom level.", "")
  /\ isDownloading' = FALSE
  /\ calls' = RemoveAt(calls, c)
  /\ UNCHANGED <<offlineManager, shown, downloadProgress, requests, sessions, now, zoom, exploreVars, codecVars>>

\* bounds and zoom are there: the options are built and createPack is called.
\* Either the storage layer starts the download, and what is left of the
\* handler after the await only logs, or it will reject the call.
CallCreatePack(c, started) ==
  /\ calls[c].pc = "bounds"
  /\ requests' = Append(requests, options(now, zoom))
  /\ sessions' = Append(sessions, [status |-> IF started THEN "active" ELSE "refused", pct |-> 0])
  /\ calls' = IF started
              THEN RemoveAt(calls, c)
              ELSE [calls EXCEPT ![c] = [pc |-> "createPack", request |-> Len(requests) + 1]]
  /\ UNCHANGED <<offlineManager, shown, alert, isDownloading, downloadProgress, now, zoom, exploreVars, codecVars>>

\* await createPack(...) throws: the catch block
CreatePackRejects(c, message) ==
  /\ calls[c].pc = "createPack"
  /\ sessions[calls[c].request].status = "refused"
  /\ alert' = Alert("Error", "Failed to start download.", message)
  /\ isDownloading' = FALSE
  /\ downloadProgress' = 0
  /\ calls' = RemoveAt(calls, c)
  /\ UNCHANGED <<offlineManager, shown, requests, sessions, now, zoom, exploreVars, codecVars>>

\* a callback that forgets to divide the percentage by 100
progressUndivided(percentage) == percentage * 100

\* the fraction, in hundredths, published by a progress callback that does
\* not complete: status.percentage / 100
progressOf(percentage) == percentage

\* a callback that compares with the status code of an active download
isActive(state) == state = 2

\* does this status code end the download
isComplete(state) == state = 3

\* onProgress(pack, status) for the download of request r; the storage layer
\* reports non-decreasing percentages until the download ends
onProgress(r, percentage, state) ==
  /\ sessions[r].status = "active"
  /\ percentage >= sessions[r].pct
  /\ IF isComplete(state)
     THEN /\ alert' = Alert("Download Complete", "downloaded successfully", "")
          /\ isDownloading' = FALSE
          /\ downloadProgress' = 100
          /\ sessions' = [sessions EXCEPT ![r] = [status |-> "complete", pct |-> 0]]
     ELSE /\ downloadProgress' = progressOf(percentage)
          /\ sessions' = [sessions EXCEPT ![r].pct = percentage]
          /\ UNCHANGED <<alert, isDownloading>>
  /\ UNCHANGED <<offlineManager, shown, calls, requests, now, zoom, exploreVars, codecVars>>

\* an error callback that leaves the published fraction where it was
staleProgress == downloadProgress

\* the fraction onError publishes
errorProgress == 0

\* onError(pack, err) for the download of request r
onError(r, message) ==
  /\ sessions[r].status = "active"
  /\ alert' = Alert("Download Error", "Failed to download region", message)
  /\ isDownloading' = FALSE
  /\ downloadProgress' = errorProgress
  /\ sessions' = [sessions EXCEPT ![r] = [status |-> "failed", pct |-> 0]]
  /\ UNCHANGED <<offlineManager, shown, calls, requests, now, zoom, exploreVars, codecVars>>

\* time passes (the clock is read when a pack is named)
Tick ==
  /\ now < MaxClock
  /\ Len(requests) < MaxDownloads
  /\ now' = now + 1
  /\ UNCHANGED <<offlineManager, shown, alert, isDownloading, downloadProgress, calls, requests, sessions, zoom, exploreVars, codecVars>>

(***************************************************************************)
(* Raw pack records                                                        *)
(***************************************************************************)

\* the indexed-character map of a text: key "i-1" holds the i-th character;
\* the keys are inserted in the order given (a permutation of 1..Len(text))
RECURSIVE IndexedMap(_, _)
IndexedMap(text, order) ==
  IF order = <<>> THEN EmptyObj
  ELSE LET n == Len(order)
       IN Put(IndexedMap(text, SubSeq(order, 1, n - 1)),
              NatToStr(order[n] - 1), Str(<<text[order[n]]>>))

Forward(n) == [i \in 1..n |-> i]

Backward(n) == [i \in 1..n |-> n + 1 - i]

\* obj with the <<key, value>> pairs listed added after its own keys
RECURSIVE WithAll(_, _)
WithAll(obj, pairs) ==
  IF pairs = <<>> THEN obj
  ELSE WithAll(Put(obj, Head(pairs)[1], Head(pairs)[2]), Tail(pairs))

\* the packs the storage layer may hold, as getPacks returns them
PackUniverse ==
  << ObjOf(<< <<K_name, Str(packName(1))>>,
              <<K__metadata, IndexedMap(<<"{", "\"", "n", "a", "m", "e", "\"", ":", "\"", "A", "\"", "}">>, Backward(12))>> >>),
     ObjOf(<< <<K_name, Str(packName(2))>>,
              <<K_metadata, Str(<<"{", "\"", "n", "a", "m", "e", "\"", ":", "\"", "B", "\"", "}">>)>> >>) >>

(***************************************************************************)
(* TabTwoScreen: fetchPacks, handleDeletePack                              *)
(***************************************************************************)

NoPack == Undefined

\* the elements of a set of indices in ascending order
RECURSIVE Ascending(_)
Ascending(set) ==
  IF set = {} THEN <<>>
  ELSE LET m == CHOOSE x \in set : \A y \in set : y <= x
       IN Append(Ascending(set \ {m}), m)

\* the mapping's result for each pack of the universe
formattedUniverse == [i \in 1..Len(PackUniverse) |-> formatPack(PackUniverse[i])]

\* the place of a pack of the universe, by its id
RECURSIVE placeOf(_, _)
placeOf(id, i) ==
  IF i > Len(PackUniverse) \/ Get(PackUniverse[i], K_name) = id THEN i ELSE placeOf(id, i + 1)

RECURSIVE snapshotRank(_)
snapshotRank(set) ==
  IF set = {} THEN 0
  ELSE LET m == CHOOSE x \in set : \A y \in set : y <= x
       IN 2 ^ (m - 1) + snapshotRank(set \ {m})

\* in-flight calls are kept in one order, whatever the order they were made in
fetchRank(f) == IF f.phase = "issued" THEN 0 ELSE 1 + snapshotRank(f.snapshot)

deleteRank(id) == placeOf(id, 1)

\* (offlinePacksRaw || []).map(...) over the packs of a snapshot
formattedPacks(snapshot) ==
  LET order == Ascending(snapshot)
  IN [i \in 1..Len(order) |-> formattedUniverse[order[i]]]

\* what fetchPacks leaves in isLoading when there is no manager
loadingWithoutManager(refreshing) == IF ~refreshing THEN TRUE ELSE isLoading

\* fetchPacks(refreshing) up to its await of getPacks
fetchPacks(refreshing) ==
  IF ~offlineManager
  THEN /\ isLoading' = loadingWithoutManager(refreshing)
       /\ UNCHANGED <<isRefreshing, fetches>>
  ELSE /\ isRefreshing' = IF refreshing THEN TRUE ELSE isRefreshing
       /\ isLoading' = IF refreshing THEN isLoading ELSE TRUE
       /\ fetches' = SortBy(fetchRank, Append(fetches, [phase |-> "issued", snapshot |-> {}]))

\* useFocusEffect: the tab comes into focus
Focus ==
  /\ Len(fetches) < MaxFetches
  /\ fetchPacks(FALSE)
  /\ UNCHANGED <<offlineManager, shown, alert, homeVars, packs, deletes, dialog, stored, codecVars>>

\* onRefresh: a pull on the list, which is rendered unless the loader
\* replaces it, and which does not fire while the spinner is shown
PullToRefresh ==
  /\ Len(fetches) < MaxFetches
  /\ ~shown.isRefreshing
  /\ ~(shown.isLoading /\ packs = <<>>)
  /\ fetchPacks(TRUE)
  /\ UNCHANGED <<offlineManager, shown, alert, homeVars, packs, deletes, dialog, stored, codecVars>>

\* the storage layer reads its packs for a getPacks call
GetPacksReads(f) ==
  /\ fetches[f].phase = "issued"
  /\ fetches' = SortBy(fetchRank, [fetches EXCEPT ![f] = [phase |-> "read", snapshot |-> stored]])
  /\ UNCHANGED <<offlineManager, shown, alert, homeVars, packs, isLoading, isRefreshing, deletes, dialog, stored, codecVars>>

\* a completion whose result is dropped while another call is in flight
GetPacksResolvesAlone(f) ==
  /\ fetches[f].phase = "read"
  /\ packs' = IF Len(fetches) > 1 THEN packs ELSE formattedPacks(fetches[f].snapshot)
  /\ isLoading' = FALSE
  /\ isRefreshing' = FALSE
  /\ fetches' = RemoveAt(fetches, f)
  /\ UNCHANGED <<offlineManager, shown, alert, homeVars, deletes, dialog, stored, codecVars>>

\* await getPacks() returns: map, setPacks, finally
GetPacksResolves(f) ==
  /\ fetches[f].phase = "read"
  /\ packs' = formattedPacks(fetches[f].snapshot)
  /\ isLoading' = FALSE
  /\ isRefreshing' = FALSE
  /\ fetches' = RemoveAt(fetches, f)
  /\ UNCHANGED <<offlineManager, shown, alert, homeVars, deletes, dialog, stored, codecVars>>

\* a catch block that leaves the list as it was
staleList == packs

\* the list the catch block of fetchPacks sets: setPacks([])
failedList == <<>>

\* await getPacks() throws: catch, finally
GetPacksRejects(f, message) ==
  /\ f \in 1..Len(fetches)
  /\ alert' = Alert("Error", "Could not fetch offline packs.", message)
  /\ packs' = failedList
  /\ isLoading' = FALSE
  /\ isRefreshing' = FALSE
  /\ fetches' = RemoveAt(fetches, f)
  /\ UNCHANGED <<offlineManager, shown, homeVars, deletes, dialog, stored, codecVars>>

\* a press of the Delete button of the i-th item (disabled while the shown
\* isLoading or isRefreshing is set): handleDeletePack
PressDelete(i) ==
  /\ i \in 1..Len(packs)
  /\ dialog = NoPack
  /\ ~(shown.isLoading \/ shown.isRefreshing)
  /\ IF ~offlineManager
     THEN /\ alert' = Alert("Error", "Offline manager not available.", "")
          /\ UNCHANGED dialog
     ELSE /\ dialog' = packs[i].name
          /\ UNCHANGED alert
  /\ UNCHANGED <<offlineManager, shown, homeVars, packs, isLoading, isRefreshing, fetches, deletes, stored, codecVars>>

\* "Cancel" in the dialog
CancelDelete ==
  /\ dialog # NoPack
  /\ dialog' = NoPack
  /\ UNCHANGED <<offlineManager, shown, alert, homeVars, packs, isLoading, isRefreshing, fetches, deletes, stored, codecVars>>

\* "Delete" in the dialog: setIsLoading(true), deletePack is called
ConfirmDelete ==
  /\ dialog # NoPack
  /\ Len(deletes) < MaxDeletes
  /\ isLoading' = TRUE
  /\ deletes' = SortBy(deleteRank, Append(deletes, dialog))
  /\ dialog' = NoPack
  /\ UNCHANGED <<offlineManager, shown, alert, homeVars, packs, isRefreshing, fetches, stored, codecVars>>

\* a handler that also takes the deleted pack out of the list
DeletePackPatches(d) ==
  /\ d \in 1..Len(deletes)
  /\ Len(fetches) < MaxFetches
  /\ stored' = {i \in stored : Get(PackUniverse[i], K_name) # deletes[d]}
  /\ deletes' = RemoveAt(deletes, d)
  /\ alert' = Alert("Success", "deleted.", "")
  /\ fetchPacks(FALSE)
  /\ packs' = SelectSeq(packs, LAMBDA p : p.name # deletes[d])
  /\ UNCHANGED <<offlineManager, shown, homeVars, dialog, codecVars>>

\* await deletePack(packName) returns: the pack is gone from the storage
\* layer, "Success" is shown and fetchPacks() is called
DeletePackResolves(d) ==
  /\ d \in 1..Len(deletes)
  /\ Len(fetches) < MaxFetches
  /\ stored' = {i \in stored : Get(PackUniverse[i], K_name) # deletes[d]}
  /\ deletes' = RemoveAt(deletes, d)
  /\ alert' = Alert("Success", "deleted.", "")
  /\ fetchPacks(FALSE)
  /\ UNCHANGED <<offlineManager, shown, homeVars, packs, dialog, codecVars>>

\* await deletePack(packName) throws: catch
DeletePackRejects(d, message) ==
  /\ d \in 1..Len(deletes)
  /\ deletes' = RemoveAt(deletes, d)
  /\ alert' = Alert("Error", "Could not delete pack.", message)
  /\ isLoading' = FALSE
  /\ UNCHANGED <<offlineManager, shown, homeVars, packs, isRefreshing, fetches, dialog, stored, codecVars>>

(***************************************************************************)
(* The raw records the mapping is applied to                               *)
(***************************************************************************)

\* longest text enumerated over Alphabet
MaxBlobLen == 3

\* characters of the enumerated texts (a text with a member needs six
\* characters or more: those are in PickedTexts and EncodedBlobs)
Alphabet == {"{", "}", "\"", "1", "n", "\\", " "}

RECURSIVE TextsUpTo(_)
TextsUpTo(n) ==
  IF n = 0 THEN {<<>>}
  ELSE LET shorter == TextsUpTo(n - 1)
       IN shorter \cup {Append(t, c) : t \in shorter, c \in Alphabet}

\* the blobs handleDownload hands to createPack
EncodedBlobs == {options(t, 125).metadata : t \in 1..MaxClock}

\* a blob of 50 characters cut short, with digits from character 46 on
TruncatedBlob ==
  LET blob == Stringify(ObjOf(<< <<K_name, Str(<<"R", "e", "g", "i", "o", "n", " ", "@", " ", "9", ":", "4", "5", ":", "0", "3", " ", "A", "M">>)>>,
                                 <<K_downloaded_at, Num(1700)>> >>))
  IN SubSeq(blob, 1, Len(blob) - 1)

PickedTexts ==
  { <<"{", "\"", "n", "a", "m", "e", "\"", ":", "\"", "A", "\"", "}">>,
    <<"{", "\"", "n", "a", "m", "e", "\"", ":", "\"", "\"", "}">>,
    <<"{", "\"", "n", "a", "m", "e", "\"", ":", "\"", "A", "\"", ",", "\"", "n", "a", "m", "e", "\"", ":", "\"", "B", "\"", "}">>,
    <<"{", "\"", "d", "o", "w", "n", "l", "o", "a", "d", "e", "d", "_", "a", "t", "\"", ":", "5", "}">>,
    <<"{", "\"", "n", "a", "m", "e", "\"", ":", "\"", "A", "\"", ",", "\"", "d", "o", "w", "n", "l", "o", "a", "d", "e", "d", "_", "a", "t", "\"", ":", "0", "}">>,
    <<"n", "u", "l", "l">>,
    <<"t", "r", "u", "e">>,
    TruncatedBlob }

Texts == TextsUpTo(MaxBlobLen) \cup EncodedBlobs \cup PickedTexts

PackIds == {Str(<<"o", "f", "f", "l", "i", "n", "e", "-", "p", "a", "c", "k", "-", "7">>), Undefined}

\* a raw record with the id (if any) and the fields listed
RawPack(id, pairs) ==
  ObjOf((IF id.t = "undefined" THEN <<>> ELSE << <<K_name, id>> >>) \o pairs)

\* keys a _metadata map may hold besides its character indices
ExtraKeys ==
  { <<>>,
    << <<K_name, Str(<<"T", "r", "a", "i", "l">>)>> >>,
    << << <<"-", "1">>, Str(<<"}">>)>> >>,
    << << <<"3", "x">>, Str(<<"1">>)>> >>,
    << <<K_name, Str(<<"T", "r", "a", "i", "l">>)>>, << <<"-", "1">>, Str(<<"}">>)>>, << <<"3", "x">>, Str(<<"1">>)>> >> }

StringRecords ==
  {RawPack(id, << <<K_metadata, Str(t)>> >>) : id \in PackIds, t \in Texts}

IndexedRecords ==
  {RawPack(id, << <<K__metadata,
                    WithAll(IndexedMap(t, IF fwd THEN Forward(Len(t)) ELSE Backward(Len(t))), extra)>> >>) :
     id \in PackIds, t \in Texts, fwd \in BOOLEAN, extra \in ExtraKeys}

ObjectRecords ==
  {RawPack(id, << <<K_metadata, m>> >>) :
     id \in PackIds,
     m \in {metadata(t) : t \in 1..MaxClock}
           \cup {EmptyObj, NameOnly(Str(<<>>)), ObjOf(<< <<K_downloaded_at, Num(5)>> >>)}}

OtherRecords ==
  UNION {{RawPack(id, <<>>),
          RawPack(id, << <<K_metadata, Num(5)>> >>),
          RawPack(id, << <<K_metadata, Bool(TRUE)>> >>),
          RawPack(id, << <<K_metadata, Str(<<>>)>> >>),
          RawPack(id, << <<K__metadata, Str(<<"{", "}">>)>> >>),
          RawPack(id, << <<K__metadata, Str(<<"{", "}">>)>>, <<K_metadata, NameOnly(Str(<<"A">>))>> >>)} :
         id \in PackIds}

\* ways a record reports its size
SizeFields ==
  { << <<K_size, Num(5000)>> >>,
    << <<K_byteSize, Num(5001)>> >>,
    << <<K_bytes, Num(5002)>> >>,
    << <<K_completedResourceSize, Num(5003)>> >>,
    << <<K_completedResourceCount, Num(7)>>, <<K_completedResourceSize, Num(5004)>> >>,
    << <<K_progress, ObjOf(<< <<K_completedResourceSize, Num(5005)>> >>)>> >>,
    << <<K_progress, ObjOf(<< <<K_completedSize, Num(5006)>> >>)>> >>,
    << << <<"f", "i", "l", "e", "S", "i", "z", "e">>, Num(5007)>> >>,
    << << <<"T", "O", "T", "A", "L", "_", "B", "Y", "T", "E", "S">>, Num(5008)>> >>,
    << <<K_size, Num(0)>> >>,
    << <<K_size, Str(<<"b", "i", "g">>)>>, <<K_bytes, Num(5009)>> >> }

SizedRecords ==
  {WithAll(r, size) :
     r \in {RawPack(id, <<>>) : id \in PackIds}
           \cup {RawPack(id, << <<K_metadata, Str(t)>> >>) : id \in PackIds, t \in EncodedBlobs}
           \cup {RawPack(id, << <<K__metadata, IndexedMap(t, Forward(Len(t)))>> >>) : id \in PackIds, t \in EncodedBlobs},
     size \in SizeFields}

RawRecords == StringRecords \cup IndexedRecords \cup ObjectRecords \cup OtherRecords \cup SizedRecords

NotFormatted == [done |-> FALSE, pack |-> [name |-> Undefined, bounds |-> Null, metadata |-> Null, size |-> Null]]

\* the mapping of fetchPacks applied to raw
FormatRaw ==
  /\ ~formatted.done
  /\ formatted' = [done |-> TRUE, pack |-> formatPack(raw)]
  /\ UNCHANGED <<offlineManager, shown, alert, homeVars, exploreVars, raw>>

(***************************************************************************)
(* Specifications                                                          *)
(***************************************************************************)

InitScreens ==
  /\ offlineManager \in BOOLEAN
  /\ isDownloading = FALSE
  /\ downloadProgress = 0
  /\ shown = [isDownloading |-> FALSE, isLoading |-> FALSE, isRefreshing |-> FALSE]
  /\ calls = <<>>
  /\ requests = <<>>
  /\ sessions = <<>>
  /\ now = 1
  /\ packs = <<>>
  /\ isLoading = FALSE
  /\ isRefreshing = FALSE
  /\ fetches = <<>>
  /\ deletes = <<>>
  /\ dialog = NoPack
  /\ stored = 1..Len(PackUniverse)
  /\ alert = NoAlert

Init ==
  /\ InitScreens
  /\ zoom = 125
  /\ raw = PackUniverse[1]
  /\ formatted = NotFormatted

\* the map tab, with the map view at some zoom level
InitHome ==
  /\ InitScreens
  /\ zoom \in Zooms
  /\ raw = PackUniverse[1]
  /\ formatted = NotFormatted

InitCodec ==
  /\ InitScreens
  /\ offlineManager
  /\ zoom = 125
  /\ raw \in RawRecords
  /\ formatted = NotFormatted

NextHome ==
  \/ PressDownload
  \/ \E c \in 1..Len(calls) : NoBounds(c)
  \/ \E c \in 1..Len(calls), started \in BOOLEAN : CallCreatePack(c, started)
  \/ \E c \in 1..Len(calls), message \in ErrorMessages : CreatePackRejects(c, message)
  \/ \E r \in 1..Len(sessions), percentage \in Percentages, state \in DownloadStates : onProgress(r, percentage, state)
  \/ \E r \in 1..Len(sessions), message \in ErrorMessages : onError(r, message)
  \/ Render
  \/ Tick

NextExplore ==
  \/ Focus
  \/ PullToRefresh
  \/ \E f \in 1..Len(fetches) : GetPacksReads(f)
  \/ \E f \in 1..Len(fetches) : GetPacksResolves(f)
  \/ \E f \in 1..Len(fetches), message \in ErrorMessages : GetPacksRejects(f, message)
  \/ \E i \in 1..Len(packs) : PressDelete(i)
  \/ CancelDelete
  \/ ConfirmDelete
  \/ \E d \in 1..Len(deletes) : DeletePackResolves(d)
  \/ \E d \in 1..Len(deletes), message \in ErrorMessages : DeletePackRejects(d, message)
  \/ Render

NextCodec == FormatRaw

\* the map tab
SpecHome == InitHome /\ [][NextHome]_vars

\* the explore tab
SpecExplore == Init /\ [][NextExplore]_vars

\* the mapping of one raw record
SpecCodec == InitCodec /\ [][NextCodec]_vars

(***************************************************************************)
(* Claims about the map tab                                                *)
(***************************************************************************)

\* the downloads the storage layer is running
activeSessions == {r \in 1..Len(sessions) : sessions[r].status = "active"}

\* C1: at most one download: handleDownload invoked twice in succession,
\* before any terminal callback and whether or not the component has
\* re-rendered in between, issues exactly one createPack request, so the
\* storage layer never runs two downloads at once.
C1_AtMostOneDownload == Cardinality(activeSessions) <= 1

\* a step of onProgress that carries the complete status code, or of onError
terminalCallback ==
  \/ \E r \in 1..Len(sessions), percentage \in Percentages : onProgress(r, percentage, 3)
  \/ \E r \in 1..Len(sessions), message \in ErrorMessages : onError(r, message)

\* C6: progress monotonicity: for one accepted download whose callbacks
\* carry non-decreasing percentages and end with the complete status code,
\* the published downloadProgress never decreases, equals percentage/100
\* until the end, and ends at exactly 1.0 with isDownloading false, whatever
\* percentage the completing callback carried.
C6_ProgressMonotone ==
  [][\A percentage \in Percentages, state \in DownloadStates :
       (Len(sessions) = 1 /\ onProgress(1, percentage, state))
         => /\ downloadProgress' >= downloadProgress
            /\ IF state = 3
               THEN downloadProgress' = 100 /\ ~isDownloading'
               ELSE downloadProgress' = percentage]_vars

\* the only download has reported its end
C6_Completed ==
  /\ Len(sessions) = 1 /\ sessions[1].status = "complete"
  /\ downloadProgress = 100 /\ ~isDownloading
  /\ alert.title = "Download Complete"

\* C7: error callback: every invocation of onError, at whatever progress,
\* leaves isDownloading false and downloadProgress 0.0 and shows the error
\* message to the user.
C7_ErrorResets ==
  [][\A r \in 1..Len(sessions), message \in ErrorMessages :
       onError(r, message)
         => /\ ~isDownloading'
            /\ downloadProgress' = 0
            /\ alert' = Alert("Download Error", "Failed to download region", message)]_vars

\* onError has arrived for the only download
C7_ErrorReported ==
  /\ Len(sessions) = 1 /\ sessions[1].status = "failed"
  /\ downloadProgress = 0 /\ ~isDownloading
  /\ alert.title = "Download Error"

\* C8: after a terminal callback (complete status code or error) the
\* coordinator is idle (isDownloading false); the next handleDownload, which
\* the button of the idle render invokes, is accepted and goes on to
\* createPack; and isDownloading goes from true to false only in a terminal
\* callback, when createPack fails, or when bounds or zoom are missing.
C8_IdleAfterTerminal ==
  [][/\ terminalCallback => ~isDownloading'
     /\ (PressDownload /\ ~isDownloading)
          => /\ isDownloading' /\ downloadProgress' = 0
             /\ calls' = Append(calls, [pc |-> "bounds", request |-> 0])
     /\ (\E c \in 1..Len(calls), started \in BOOLEAN : CallCreatePack(c, started))
          => Len(requests') = Len(requests) + 1
     /\ (isDownloading /\ ~isDownloading')
          => \/ terminalCallback
             \/ \E c \in 1..Len(calls) : NoBounds(c)
             \/ \E c \in 1..Len(calls), message \in ErrorMessages : CreatePackRejects(c, message)]_vars

\* a first download failed and a second one, requested later, is running
C8_SecondDownloadRuns ==
  /\ Len(sessions) = 2
  /\ sessions[1].status = "failed" /\ sessions[2].status = "active"
  /\ requests[1].name # requests[2].name
  /\ isDownloading /\ shown.isDownloading

\* C16: zoom clamping: for every viewport zoom z the create-pack request
\* has minZoom = max(0, floor(z) - 2) and maxZoom = min(16, floor(z) + 3),
\* so minZoom >= 0 and maxZoom <= 16.
C16_ZoomClamped ==
  \A r \in 1..Len(requests) :
    /\ requests[r].minZoom = (IF Floor(zoom) - 2 < 0 THEN 0 ELSE Floor(zoom) - 2)
    /\ requests[r].maxZoom = (IF Floor(zoom) + 3 > 16 THEN 16 ELSE Floor(zoom) + 3)
    /\ requests[r].minZoom >= 0
    /\ requests[r].maxZoom <= 16

\* a request made at zoom 14.5, where floor(z) + 3 is above the limit
C16_UpperLimitApplied ==
  /\ Floor(zoom) + 3 > 16
  /\ requests # <<>> /\ requests[1].maxZoom = 16 /\ requests[1].minZoom = 12

\* C21: for every viewport zoom z, the zoom window sent to createPack is a
\* valid inclusive range: minZoom <= maxZoom.
C21_ValidWindow ==
  \A r \in 1..Len(requests) : requests[r].minZoom <= requests[r].maxZoom

\* a progress, complete or error callback of the download of request r
callbackOf(r) ==
  \/ \E percentage \in Percentages, state \in DownloadStates : onProgress(r, percentage, state)
  \/ \E message \in ErrorMessages : onError(r, message)

\* C22: callbacks are isolated per session: while the session of pack B is
\* active, a progress, complete or error callback that carries another
\* pack's identity changes neither isDownloading nor downloadProgress, so it
\* cannot end B's session.
C22_CallbacksIsolated ==
  [][\A a, b \in 1..Len(sessions) :
       (/\ sessions[b].status = "active"
        /\ requests[a].name # requests[b].name
        /\ callbackOf(a))
         => /\ isDownloading' = isDownloading
            /\ downloadProgress' = downloadProgress]_vars

\* C18: fresh identifiers: every accepted handleDownload issues createPack
\* with a pack identifier different from that of every request issued
\* before, for any non-decreasing clock readings, two requests accepted at
\* the same clock value included.
C18_FreshIdentifiers ==
  \A i, j \in 1..Len(requests) : i # j => requests[i].name # requests[j].name

(***************************************************************************)
(* Claims about the mapping of fetchPacks                                  *)
(***************************************************************************)

\* the metadata records handleDownload builds
builtMetadata == {metadata(t) : t \in 1..MaxClock}

\* the blob createPack is handed for each of them, as a string value
encoded == [m \in builtMetadata |-> Str(Stringify(m))]

\* raw holds its metadata under "metadata" only
storedOnly == Get(raw, K__metadata) = Undefined

\* C2: total decode: for every raw pack record, whatever its metadata is
\* (absent, object, string, other type, indexed-character map), the metadata
\* the mapping produces has a non-empty display name.
C2_TotalDecode == formatted.done => Truthy(Get(formatted.pack.metadata, K_name))

\* C3: round trip: for every record m built by handleDownload, the mapping
\* applied to a pack whose metadata is the string JSON.stringify(m), or m
\* itself, yields metadata equal to m (same name, same timestamp).
C3_RoundTrip ==
  \A m \in builtMetadata :
    (formatted.done /\ storedOnly /\ Get(raw, K_metadata) \in {m, encoded[m]})
      => formatted.pack.metadata = m

\* a blob of handleDownload went through the string path and came back
C3_RoundTripReached ==
  /\ formatted.done /\ storedOnly
  /\ Get(raw, K_metadata) = encoded[metadata(1)]
  /\ Get(formatted.pack.metadata, K_downloaded_at) = Num(1)
  /\ Get(formatted.pack.metadata, K_name) = Str(S_Region \o <<"0", ":", "1">>)

\* metadata records: those of handleDownload, and records with a short or
\* empty name and no timestamp
metadataRecords == builtMetadata \cup {NameOnly(Str(<<"A">>)), NameOnly(Str(<<>>))}

\* the indexed-character maps of the blob of m, keys inserted in either order
indexedMapsOf ==
  [m \in metadataRecords |->
     {IndexedMap(Stringify(m), Forward(Len(Stringify(m)))),
      IndexedMap(Stringify(m), Backward(Len(Stringify(m))))}]

\* what the string path decodes from the blob of m for a pack with the id given
stringDecoded ==
  [m \in metadataRecords |->
     [id \in PackIds |-> decodeStored(RawPack(id, << <<K_metadata, Str(Stringify(m))>> >>))]]

\* C4: indexed-character reconstruction: for every metadata record m, the
\* mapping applied to the indexed-character map of encode(m) gives the same
\* metadata as the mapping applied to the string encode(m), in whatever
\* order the keys were inserted into the map.
C4_IndexedEqualsString ==
  \A m \in metadataRecords :
    (formatted.done /\ Get(raw, K_metadata) = Undefined
       /\ Get(raw, K__metadata) \in indexedMapsOf[m])
      => formatted.pack.metadata = stringDecoded[m][Get(raw, K_name)]

\* a key that is a non-negative integer
isNonNegativeInteger(key) == key # <<>> /\ \A i \in 1..Len(key) : key[i] \in Digits

\* the characters under the non-negative-integer keys, in ascending order
indexedCharacters(md) ==
  ConcatAt(md, SortBy(KeyRank, Filter(isNonNegativeInteger, md.k)))

\* C5: key collection and ordering: the blob reconstructed from an
\* indexed-character map is made of the characters under exactly the keys
\* that are non-negative integers ("name", "-1", "3x" contribute nothing),
\* in ascending numeric order.
C5_OnlyIntegerKeys ==
  (formatted.done /\ Truthy(Get(raw, K__metadata)) /\ TypeOf(Get(raw, K__metadata)) = "object")
    => reconstructedJson(Get(raw, K__metadata)) = indexedCharacters(Get(raw, K__metadata))

\* C10: the size estimate prefers a reported size: for every raw record with
\* a numeric size-like field, the size of the normalized pack is that
\* reported value, with or without a metadata blob.
C10_ReportedSizePreferred ==
  (formatted.done /\ inspectPackForSize(raw) # Null)
    => formatted.pack.size = inspectPackForSize(raw)

\* the mapping takes the branch of the character-by-character format
usesIndexedPath(pack) ==
  Truthy(Get(pack, K__metadata)) /\ TypeOf(Get(pack, K__metadata)) = "object"

\* an indexed-character map: every key is a non-negative integer
isIndexedMap(md) ==
  /\ Truthy(md) /\ TypeOf(md) = "object"
  /\ \A i \in 1..Len(md.k) : isNonNegativeInteger(md.k[i])

\* C11: heuristic size: for a raw record with no reported size field whose
\* metadata is an indexed-character map encoding a blob of length L, the
\* size of the normalized pack is 10*1024 + 2*L, L being the length of the
\* reconstructed blob.
C11_HeuristicSize ==
  (formatted.done /\ isIndexedMap(Get(raw, K__metadata)) /\ inspectPackForSize(raw) = Null)
    => formatted.pack.size = Num(10 * 1024 + 2 * Len(reconstructedJson(Get(raw, K__metadata))))

\* v is an object with a usable name
hasName(v) == v.t = "object" /\ Truthy(Get(v, K_name))

\* some decode path recovers a display name from the record: the parsed
\* blob or the stored object has one, or the indexed-character map has a
\* name field of its own
nameRecovered(pack) ==
  WithVal(Get(pack, K_metadata), LAMBDA md :
  WithVal(Get(pack, K__metadata), LAMBDA chars :
    IF usesIndexedPath(pack)
    THEN WithVal(JsonParse(reconstructedJson(chars)), LAMBDA parsed :
           (parsed.ok /\ hasName(parsed.v)) \/ Truthy(Get(chars, K_name)))
    ELSE CASE md.t = "object" -> hasName(md)
           [] md.t = "string" -> WithVal(JsonParse(md.s), LAMBDA parsed :
                                   parsed.ok /\ hasName(parsed.v))
           [] OTHER           -> FALSE))

\* C17: fallback label: whenever no display name can be recovered from a raw
\* record by any decode path (no metadata, unparsable string, metadata of
\* unknown type, parsed value that is not an object, object without a name,
\* unparsable indexed-character map without a name field), the display name
\* produced is exactly "Pack: " followed by the pack's identifier.
C17_FallbackLabel ==
  (formatted.done /\ Get(raw, K_name).t = "string" /\ ~nameRecovered(raw))
    => Get(formatted.pack.metadata, K_name) = Str(S_Pack \o Get(raw, K_name).s)

\* C19: unparsable opaque string: when the metadata of a raw record is a
\* string that does not parse, the mapping does not fail and the display
\* name it synthesizes contains the raw string or a fragment of it (one
\* character of it at the least).
C19_LabelHoldsFragment ==
  WithVal(Get(raw, K_metadata), LAMBDA md :
    (/\ formatted.done /\ ~usesIndexedPath(raw)
     /\ md.t = "string" /\ md.s # <<>> /\ ~JsonParse(md.s).ok)
      => WithVal(Get(formatted.pack.metadata, K_name), LAMBDA shownName :
           /\ shownName.t = "string"
           /\ \E i \in 1..Len(md.s) : Includes(shownName.s, <<md.s[i]>>)))

\* C20: indexed-map degradation: when the text reconstructed from an
\* indexed-character map does not parse, the display name is the map's own
\* name field if it has a usable one, and otherwise the label synthesized
\* from the pack identifier ("Pack: " and the identifier); nothing else.
C20_IndexedDegradation ==
  WithVal(Get(raw, K__metadata), LAMBDA chars :
  WithVal(Get(raw, K_name), LAMBDA id :
    (formatted.done /\ usesIndexedPath(raw) /\ ~JsonParse(reconstructedJson(chars)).ok)
      => WithVal(Get(formatted.pack.metadata, K_name), LAMBDA shownName :
           IF Truthy(Get(chars, K_name))
           THEN shownName = Get(chars, K_name)
           ELSE /\ shownName.t = "string"
                /\ Matches(shownName.s, 1, S_Pack)
                /\ id.t = "string" => shownName.s = S_Pack \o id.s)))

\* a blob cut short came back as an indexed-character map that also has a
\* name field: the pack is shown under that name
C20_NameFieldUsed ==
  /\ formatted.done /\ usesIndexedPath(raw)
  /\ reconstructedJson(Get(raw, K__metadata)) = TruncatedBlob
  /\ Get(Get(raw, K__metadata), K_name) = Str(<<"T", "r", "a", "i", "l">>)
  /\ Get(formatted.pack.metadata, K_name) = Str(<<"T", "r", "a", "i", "l">>)

(***************************************************************************)
(* Claims about the explore tab                                            *)
(***************************************************************************)

\* no getPacks or deletePack call is in flight and no dialog is open
exploreQuiescent == fetches = <<>> /\ deletes = <<>> /\ dialog = NoPack

\* C12: list failure: when getPacks rejects, fetchPacks sets the pack list
\* to empty (not the previous list), reports the failure to the user, clears
\* isLoading and isRefreshing, and issues no further getPacks call.
C12_ListFailure ==
  [][\A f \in 1..Len(fetches), message \in ErrorMessages :
       GetPacksRejects(f, message)
         => /\ packs' = <<>>
            /\ alert' = Alert("Error", "Could not fetch offline packs.", message)
            /\ ~isLoading' /\ ~isRefreshing'
            /\ fetches' = RemoveAt(fetches, f)]_vars

\* a list that had an item whose Delete was pressed has been emptied by a
\* failed getPacks, the last thing reported
C12_ListCleared ==
  /\ dialog # NoPack
  /\ packs = <<>> /\ ~isLoading /\ ~isRefreshing
  /\ alert = Alert("Error", "Could not fetch offline packs.", "timeout")

\* C13: delete does not mutate the cache: the delete operation never changes
\* the in-memory pack list, on success or on failure; the list changes only
\* when a getPacks call completes, so after deletePack(id) resolves the list
\* still holds id until then, and after it rejects the list is what it was.
C13_DeleteKeepsList ==
  [][/\ (\E d \in 1..Len(deletes) : DeletePackResolves(d)) => packs' = packs
     /\ (\E d \in 1..Len(deletes), message \in ErrorMessages : DeletePackRejects(d, message))
          => packs' = packs
     /\ packs' # packs
          => \/ \E f \in 1..Len(fetches) : GetPacksResolves(f)
             \/ \E f \in 1..Len(fetches), message \in ErrorMessages : GetPacksRejects(f, message)]_vars

\* the storage layer has deleted a pack that the list still shows
C13_DeletedStillListed ==
  /\ alert = Alert("Success", "deleted.", "")
  /\ \E i \in 1..Len(packs) : placeOf(packs[i].name, 1) \notin stored

\* a getPacks call completes in this step
listCompletes ==
  \/ \E f \in 1..Len(fetches) : GetPacksResolves(f)
  \/ \E f \in 1..Len(fetches), message \in ErrorMessages : GetPacksRejects(f, message)

\* C14: overlapping lists: with several fetchPacks calls in flight that
\* complete in any order, after each completion the pack list is the result
\* of the call that has just completed (its normalized records, or empty if
\* it failed), and nothing else replaces it until the next completion.
C14_LastCompletedWins ==
  [][/\ \A f \in 1..Len(fetches) :
          GetPacksResolves(f) => packs' = formattedPacks(fetches[f].snapshot)
     /\ \A f \in 1..Len(fetches), message \in ErrorMessages :
          GetPacksRejects(f, message) => packs' = <<>>
     /\ packs' # packs => listCompletes]_vars

\* of two overlapping calls the one that read the storage layer first has
\* completed last: the list shows a pack that is no longer stored
C14_OlderResultShown ==
  /\ fetches = <<>> /\ deletes = <<>>
  /\ packs # <<>> /\ packs # formattedPacks(stored)

\* C15: no two storage-layer operations of the same kind run at once from
\* user intent: in every reachable state, also while focus-triggered and
\* pull-to-refresh list calls overlap and complete in any order, at most one
\* deletePack call is in flight and at most one createPack request is active.
C15_OneOfAKind == Len(deletes) <= 1 /\ Cardinality(activeSessions) <= 1

\* C9: every failure path returns to idle: once a failing operation has
\* finished (the manager missing at fetchPacks, getPacks or deletePack
\* rejecting), no busy flag stays set on its behalf, so with nothing in
\* flight isLoading and isRefreshing are false.
C9_NoBusyFlagLeft == exploreQuiescent => (~isLoading /\ ~isRefreshing)

\* C23: consistency after delete: once deletePack(id) has succeeded and
\* every getPacks call that was in flight then or was issued afterwards (the
\* automatic refresh, and any call issued before the delete that completes
\* later) has completed successfully, the displayed pack list does not hold
\* id: with the success of a delete the last thing reported and nothing in
\* flight, every pack listed is still stored.
C23_DeletedGone ==
  (alert = Alert("Success", "deleted.", "") /\ fetches = <<>> /\ deletes = <<>>)
    => \A i \in 1..Len(packs) : placeOf(packs[i].name, 1) \in stored

====
